---------------------------- MODULE Spec2Model ----------------------------
(***************************************************************************)
(* The game store of Liquid-Left-Local (src/store.ts): the zustand state   *)
(* container, its procedural generators and its actions, together with    *)
(* the interval timers that triggerRain starts, the frame callback of the  *)
(* Player component in the Prologue and the sequence level                 *)
(* (src/components/Player.tsx) and the proceed control of the UI           *)
(* (src/components/PWAInstallPrompt.tsx).                                  *)
(*                                                                         *)
(* Representation of numbers:                                              *)
(*   playerScale   in tenths (10 is the scale 1.0, 100 the ceiling 10);    *)
(*   leafHealth    in whole points (0..100);                               *)
(*   rainLevel     as the number of 0.04 increments added since the last   *)
(*                 startLevel (the IEEE-754 sum of k increments is >= 20   *)
(*                 first at k = 501 and > 6.0 first at k = 150);           *)
(*   positions     as <<x, y, z>> in units of 0.5.                         *)
(* Positions, scales and colours of nodes and features are not modelled:   *)
(* no store action reads them.                                             *)
(***************************************************************************)
EXTENDS Integers, Sequences, FiniteSets, TLC

VARIABLES
    currentLevel, interactionMode, narrativeIndex,
    nodes, connections, envFeatures,
    playerPos, cursorWorldPos, isMouseDown, hoveredNodeId, draggingNodeId,
    isInteractiveHover,
    sequenceOrder, nextSequenceIndex, tetheredNodeId,
    bubblesPopped, fragmentsCollected, playerScale,
    leafHealth, lastBlockTime, rainLevel, isRaining, isLevelComplete,
    timers,           \* the intervals created by triggerRain, in creation order
    extinguishCount,  \* how many times playSunExtinguish has been called
    position,         \* the Player component's position ref (Player.tsx:38)
    renderedLevel,    \* the currentLevel the Player component last rendered with
    driver            \* which group of store actions a behaviour exercises

levelVars == <<currentLevel, interactionMode>>
puzzleVars == <<nodes, connections, sequenceOrder, nextSequenceIndex>>
inputVars == <<playerPos, cursorWorldPos, isMouseDown, hoveredNodeId, lastBlockTime>>
nameVars == <<bubblesPopped, fragmentsCollected>>
rainVars == <<rainLevel, isRaining>>
timerVars == <<timers, extinguishCount>>
playerVars == <<position, renderedLevel>>

vars == <<currentLevel, interactionMode, narrativeIndex, nodes, connections,
          envFeatures, playerPos, cursorWorldPos, isMouseDown, hoveredNodeId,
          draggingNodeId, isInteractiveHover, sequenceOrder, nextSequenceIndex,
          tetheredNodeId, bubblesPopped, fragmentsCollected, playerScale,
          leafHealth, lastBlockTime, rainLevel, isRaining, isLevelComplete,
          timers, extinguishCount, position, renderedLevel, driver>>

---------------------------------------------------------------------------
(* Types and program constants *)

NULL == "null"

Levels == {"PROLOGUE", "CHAPTER_1", "NAME", "CHEWING", "WIND", "TRAVEL",
           "CONNECTION", "HOME", "SUN"}

\* Decimal numerals, for the template strings that build ids (`n1-${i}`).
NumStr == <<"0", "1", "2", "3", "4", "5", "6", "7", "8", "9", "10", "11",
            "12", "13", "14", "15", "16", "17", "18", "19">>

Id(prefix, i) == prefix \o NumStr[i + 1]

MAX_SCALE == 100
FRAGMENT_GOAL == 5
MAX_HEALTH == 100
FRAGMENTS_PER_BUBBLE == 3
CHEWING_TEXT_SCALE == 30
CHEWING_DONE_SCALE == 80
WIND_TEXT_SCALE == 30
RAIN_FULL_STEPS == 501
EXTINGUISH_STEPS == 150
MIN_NODES == 6
MAX_NODES == 9

Feature(id, type, data) == [id |-> id, type |-> type, data |-> data]

Node(id) == [id |-> id, connected |-> FALSE]

Range(s) == {s[i] : i \in DOMAIN s}

---------------------------------------------------------------------------
(* Procedural generation *)

generatePrologueEnv ==
    [nodes |-> <<>>,
     env |-> [k \in 1..28 |->
                 IF k % 2 = 1
                 THEN Feature(Id("canal-l-", (k - 1) \div 2), "FLESH_TUNNEL", "")
                 ELSE Feature(Id("canal-r-", (k - 2) \div 2), "FLESH_TUNNEL", "")]
             \o <<Feature("exit-gate", "EXIT_GATE", "")>>]

generateLevel1Env ==
    [nodes |-> [i \in 1..6 |-> Node(Id("n1-", i - 1))],
     env |-> [i \in 1..8 |-> Feature(Id("spore-", i - 1), "DECORATION", "")]]

\* Mutant: the loop that pushes the bubbles stops one short.
generateNameEnv_OneShort ==
    [nodes |-> <<>>,
     env |-> [i \in 1..14 |-> Feature(Id("bubble-", i - 1), "BUBBLE", "text")]]

generateNameEnv ==
    [nodes |-> <<>>,
     env |-> [i \in 1..15 |-> Feature(Id("bubble-", i - 1), "BUBBLE", "text")]]

generateChewingEnv ==
    [nodes |-> <<>>,
     env |-> [i \in 1..20 |-> Feature(Id("fleshball-", i - 1), "FLESH_BALL", "")]]

generateWindEnv ==
    [nodes |-> <<>>,
     env |-> <<Feature("wind-emitter", "WIND_EMITTER", ""),
               Feature("withered-leaf", "WITHERED_LEAF", "")>>]

generateTravelEnv ==
    [nodes |-> <<>>,
     env |-> <<Feature("orb-happy", "EMOTION_ORB", "HAPPY"),
               Feature("orb-angry", "EMOTION_ORB", "ANGRY"),
               Feature("orb-envy", "EMOTION_ORB", "ENVY"),
               Feature("orb-tear", "EMOTION_ORB", "TEAR")>>]

\* count is the outcome of Math.floor(Math.random() * 4) + 6 and platforms the
\* set of node indexes for which Math.random() < 0.6 came out true.
generateConnectionEnv(count, platforms) ==
    LET withPlatform == SelectSeq([i \in 1..count |-> i - 1],
                                  LAMBDA i : i \in platforms)
    IN  [nodes |-> [i \in 1..count |-> Node(Id("n2-rnd-", i - 1))],
         env |-> [k \in 1..Len(withPlatform) |->
                     Feature(Id("plat-rnd-", withPlatform[k]), "ORGANIC_PLATFORM", "")]
                 \o [j \in 1..5 |-> Feature(Id("debris-", j - 1), "ORGANIC_PLATFORM", "")]]

generateHomeEnv ==
    [nodes |-> <<>>, env |-> <<Feature("lake", "LAKE", "")>>]

generateSunEnv ==
    [nodes |-> <<>>,
     env |-> <<Feature("the-sun", "SUN", ""), Feature("mushroom", "MUSHROOM", "")>>]

\* Mutant: every level spawns the player at the origin.
START_POSITIONS_Origin == [level \in Levels |-> <<0, 0, 0>>]

START_POSITIONS ==
    [PROLOGUE |-> <<0, 1, -24>>, CHAPTER_1 |-> <<0, 1, 16>>, NAME |-> <<0, 1, 0>>,
     CHEWING |-> <<0, 1, -16>>, WIND |-> <<0, 1, 0>>, TRAVEL |-> <<0, 1, 0>>,
     CONNECTION |-> <<0, 1, 16>>, HOME |-> <<0, 1, 10>>, SUN |-> <<0, 1, 10>>]

\* The switch of startLevel: the generator's result for the level.
Generate(level, count, platforms) ==
    CASE level = "PROLOGUE" -> generatePrologueEnv
      [] level = "CHAPTER_1" -> generateLevel1Env
      [] level = "NAME" -> generateNameEnv
      [] level = "CHEWING" -> generateChewingEnv
      [] level = "WIND" -> generateWindEnv
      [] level = "TRAVEL" -> generateTravelEnv
      [] level = "CONNECTION" -> generateConnectionEnv(count, platforms)
      [] level = "HOME" -> generateHomeEnv
      [] level = "SUN" -> generateSunEnv

\* Mutant: the cases of the switch that set mode are missing.
ModeOf_AlwaysLure(level) == "LURE"

ModeOf(level) ==
    CASE level = "PROLOGUE" -> "SLINGSHOT"
      [] level = "HOME" -> "OBSERVER"
      [] level = "SUN" -> "CLICK"
      [] OTHER -> "LURE"

SequenceOf(level, genResult) ==
    IF level = "CHAPTER_1"
    THEN [i \in 1..Len(genResult.nodes) |-> genResult.nodes[i].id]
    ELSE <<>>

---------------------------------------------------------------------------
(* The store after create() *)

Drivers == {"name", "chew", "wind", "puzzle", "rain", "frame", "ui"}

StoreInit ==
    /\ currentLevel = "PROLOGUE"
    /\ interactionMode = "SLINGSHOT"
    /\ narrativeIndex = 0
    /\ nodes = <<>>
    /\ connections = <<>>
    /\ envFeatures = <<>>
    /\ playerPos = <<0, 1, -24>>
    /\ cursorWorldPos = <<0, 0, 0>>
    /\ isMouseDown = FALSE
    /\ hoveredNodeId = NULL
    /\ draggingNodeId = NULL
    /\ isInteractiveHover = FALSE
    /\ sequenceOrder = <<>>
    /\ nextSequenceIndex = 0
    /\ tetheredNodeId = NULL
    /\ bubblesPopped = 0
    /\ fragmentsCollected = 0
    /\ playerScale = 10
    /\ leafHealth = 0
    /\ lastBlockTime = 0
    /\ rainLevel = 0
    /\ isRaining = FALSE
    /\ isLevelComplete = FALSE
    /\ timers = <<>>
    /\ extinguishCount = 0

\* The Player component mounts on the initial state: its position ref is a
\* copy of playerPos and it has rendered the Prologue.
PlayerInit ==
    /\ position = <<0, 1, -24>>
    /\ renderedLevel = "PROLOGUE"

Init == StoreInit /\ PlayerInit /\ driver \in Drivers

---------------------------------------------------------------------------
(* Setters *)

SetCursorWorldPos(pos) ==
    /\ cursorWorldPos' = pos
    /\ UNCHANGED <<levelVars, narrativeIndex, puzzleVars, envFeatures, playerPos,
                   isMouseDown, hoveredNodeId, draggingNodeId, isInteractiveHover,
                   tetheredNodeId, nameVars, playerScale, leafHealth, lastBlockTime,
                   rainVars, isLevelComplete, timerVars, playerVars, driver>>

\* Mutant: the first mouse down advances the narrative in every level.
SetMouseDown_AnyLevel(isDown) ==
    LET newIdx == IF isDown /\ narrativeIndex = 0
                  THEN 1 ELSE narrativeIndex
    IN  /\ isMouseDown' = isDown
        /\ narrativeIndex' = newIdx
        /\ UNCHANGED <<levelVars, puzzleVars, envFeatures, playerPos, cursorWorldPos,
                       hoveredNodeId, draggingNodeId, isInteractiveHover,
                       tetheredNodeId, nameVars, playerScale, leafHealth,
                       lastBlockTime, rainVars, isLevelComplete, timerVars, playerVars, driver>>

SetMouseDown(isDown) ==
    LET newIdx == IF isDown /\ currentLevel = "PROLOGUE" /\ narrativeIndex = 0
                  THEN 1 ELSE narrativeIndex
    IN  /\ isMouseDown' = isDown
        /\ narrativeIndex' = newIdx
        /\ UNCHANGED <<levelVars, puzzleVars, envFeatures, playerPos, cursorWorldPos,
                       hoveredNodeId, draggingNodeId, isInteractiveHover,
                       tetheredNodeId, nameVars, playerScale, leafHealth,
                       lastBlockTime, rainVars, isLevelComplete, timerVars, playerVars, driver>>

SetHoveredNode(id) ==
    /\ hoveredNodeId' = id
    /\ UNCHANGED <<levelVars, narrativeIndex, puzzleVars, envFeatures, playerPos,
                   cursorWorldPos, isMouseDown, draggingNodeId, isInteractiveHover,
                   tetheredNodeId, nameVars, playerScale, leafHealth, lastBlockTime,
                   rainVars, isLevelComplete, timerVars, playerVars, driver>>

SetInteractiveHover(isHover) ==
    /\ isInteractiveHover' = isHover
    /\ UNCHANGED <<levelVars, narrativeIndex, puzzleVars, envFeatures, inputVars,
                   draggingNodeId, tetheredNodeId, nameVars, playerScale, leafHealth,
                   rainVars, isLevelComplete, timerVars, playerVars, driver>>

StartDragConnection(id) ==
    /\ draggingNodeId' = id
    /\ UNCHANGED <<levelVars, narrativeIndex, puzzleVars, envFeatures, inputVars,
                   isInteractiveHover, tetheredNodeId, nameVars, playerScale,
                   leafHealth, rainVars, isLevelComplete, timerVars, playerVars, driver>>

CancelDrag ==
    /\ draggingNodeId' = NULL
    /\ UNCHANGED <<levelVars, narrativeIndex, puzzleVars, envFeatures, inputVars,
                   isInteractiveHover, tetheredNodeId, nameVars, playerScale,
                   leafHealth, rainVars, isLevelComplete, timerVars, playerVars, driver>>

SetTetheredNode(id) ==
    /\ tetheredNodeId' = id
    /\ UNCHANGED <<levelVars, narrativeIndex, puzzleVars, envFeatures, inputVars,
                   draggingNodeId, isInteractiveHover, nameVars, playerScale,
                   leafHealth, rainVars, isLevelComplete, timerVars, playerVars, driver>>

UpdatePlayerPos(pos) ==
    /\ playerPos' = pos
    /\ UNCHANGED <<levelVars, narrativeIndex, puzzleVars, envFeatures,
                   cursorWorldPos, isMouseDown, hoveredNodeId, draggingNodeId,
                   isInteractiveHover, tetheredNodeId, nameVars, playerScale,
                   leafHealth, lastBlockTime, rainVars, isLevelComplete, timerVars,
                   playerVars, driver>>

\* Date.now() is the input `now`.
TriggerPlayerBlock(now) ==
    /\ lastBlockTime' = now
    /\ UNCHANGED <<levelVars, narrativeIndex, puzzleVars, envFeatures, playerPos,
                   cursorWorldPos, isMouseDown, hoveredNodeId, draggingNodeId,
                   isInteractiveHover, tetheredNodeId, nameVars, playerScale,
                   leafHealth, rainVars, isLevelComplete, timerVars, playerVars, driver>>

---------------------------------------------------------------------------
(* Level mechanics *)

HasFeature(id) == \E i \in DOMAIN envFeatures : envFeatures[i].id = id

WithoutFeature(id) == SelectSeq(envFeatures, LAMBDA f : f.id # id)

FragmentId(id, i) == "frag-" \o id \o "-" \o NumStr[i + 1]

\* Mutant: the loop that pushes the fragments stops one short.
Fragments_OneShort(id) ==
    [k \in 1..(FRAGMENTS_PER_BUBBLE - 1) |->
        Feature(FragmentId(id, k - 1), "FRAGMENT", "char")]

Fragments(id) ==
    [k \in 1..FRAGMENTS_PER_BUBBLE |-> Feature(FragmentId(id, k - 1), "FRAGMENT", "char")]

PopBubble(id) ==
    IF ~HasFeature(id)
    THEN UNCHANGED vars
    ELSE /\ envFeatures' = WithoutFeature(id) \o Fragments(id)
         /\ bubblesPopped' = bubblesPopped + 1
         /\ isInteractiveHover' = FALSE
         /\ UNCHANGED <<levelVars, narrativeIndex, puzzleVars, inputVars,
                        draggingNodeId, tetheredNodeId, fragmentsCollected,
                        playerScale, leafHealth, rainVars, isLevelComplete,
                        timerVars, playerVars, driver>>

\* Mutant: the level completes only above the goal of 5 fragments.
AbsorbFragment_AboveGoal(id) ==
    LET count == fragmentsCollected + 1
        isComplete == count > FRAGMENT_GOAL
    IN  /\ envFeatures' = WithoutFeature(id)
        /\ fragmentsCollected' = count
        /\ isLevelComplete' = isComplete
        /\ narrativeIndex' = IF isComplete THEN 1 ELSE narrativeIndex
        /\ UNCHANGED <<levelVars, puzzleVars, inputVars, draggingNodeId,
                       isInteractiveHover, tetheredNodeId, bubblesPopped,
                       playerScale, leafHealth, rainVars, timerVars, playerVars, driver>>

\* Mutant: an id that is no feature is not counted.
AbsorbFragment_OnlyPresent(id) ==
    IF ~HasFeature(id)
    THEN UNCHANGED vars
    ELSE LET count == fragmentsCollected + 1
             isComplete == count >= FRAGMENT_GOAL
         IN  /\ envFeatures' = WithoutFeature(id)
             /\ fragmentsCollected' = count
             /\ isLevelComplete' = isComplete
             /\ narrativeIndex' = IF isComplete THEN 1 ELSE narrativeIndex
             /\ UNCHANGED <<levelVars, puzzleVars, inputVars, draggingNodeId,
                            isInteractiveHover, tetheredNodeId, bubblesPopped,
                            playerScale, leafHealth, rainVars, timerVars, playerVars, driver>>

AbsorbFragment(id) ==
    LET count == fragmentsCollected + 1
        isComplete == count >= FRAGMENT_GOAL
    IN  /\ envFeatures' = WithoutFeature(id)
        /\ fragmentsCollected' = count
        /\ isLevelComplete' = isComplete
        /\ narrativeIndex' = IF isComplete THEN 1 ELSE narrativeIndex
        /\ UNCHANGED <<levelVars, puzzleVars, inputVars, draggingNodeId,
                       isInteractiveHover, tetheredNodeId, bubblesPopped,
                       playerScale, leafHealth, rainVars, timerVars, playerVars, driver>>

HoverFleshBall ==
    /\ isInteractiveHover' = TRUE
    /\ narrativeIndex' = IF currentLevel = "CHEWING" /\ narrativeIndex = 0
                         THEN 1 ELSE narrativeIndex
    /\ UNCHANGED <<levelVars, puzzleVars, envFeatures, inputVars, draggingNodeId,
                   tetheredNodeId, nameVars, playerScale, leafHealth, rainVars,
                   isLevelComplete, timerVars, playerVars, driver>>

Min(a, b) == IF a < b THEN a ELSE b

Max(a, b) == IF a > b THEN a ELSE b

\* Mutant: the ceiling Math.min(..., 10) is missing.
GrowPlayer_NoCeiling(amount) ==
    LET newScale == playerScale + amount
        chewing == currentLevel = "CHEWING"
        isComplete == chewing /\ newScale > CHEWING_DONE_SCALE
        afterChewing ==
            IF chewing
            THEN IF isComplete THEN 3
                 ELSE IF newScale > CHEWING_TEXT_SCALE /\ narrativeIndex < 2 THEN 2
                 ELSE narrativeIndex
            ELSE narrativeIndex
        newNarrativeIndex ==
            IF currentLevel = "WIND" /\ newScale > WIND_TEXT_SCALE /\ narrativeIndex = 0
            THEN 1 ELSE afterChewing
    IN  /\ playerScale' = newScale
        /\ isLevelComplete' = IF isComplete THEN TRUE ELSE isLevelComplete
        /\ narrativeIndex' = newNarrativeIndex
        /\ UNCHANGED <<levelVars, puzzleVars, envFeatures, inputVars, draggingNodeId,
                       isInteractiveHover, tetheredNodeId, nameVars, leafHealth,
                       rainVars, timerVars, playerVars, driver>>

\* Mutant: the level completes at a resulting scale of 8 already.
GrowPlayer_CompletesAtEight(amount) ==
    LET newScale == Min(playerScale + amount, MAX_SCALE)
        chewing == currentLevel = "CHEWING"
        isComplete == chewing /\ newScale >= CHEWING_DONE_SCALE
        afterChewing ==
            IF chewing
            THEN IF isComplete THEN 3
                 ELSE IF newScale > CHEWING_TEXT_SCALE /\ narrativeIndex < 2 THEN 2
                 ELSE narrativeIndex
            ELSE narrativeIndex
        newNarrativeIndex ==
            IF currentLevel = "WIND" /\ newScale > WIND_TEXT_SCALE /\ narrativeIndex = 0
            THEN 1 ELSE afterChewing
    IN  /\ playerScale' = newScale
        /\ isLevelComplete' = IF isComplete THEN TRUE ELSE isLevelComplete
        /\ narrativeIndex' = newNarrativeIndex
        /\ UNCHANGED <<levelVars, puzzleVars, envFeatures, inputVars, draggingNodeId,
                       isInteractiveHover, tetheredNodeId, nameVars, leafHealth,
                       rainVars, timerVars, playerVars, driver>>

GrowPlayer(amount) ==
    LET newScale == Min(playerScale + amount, MAX_SCALE)
        chewing == currentLevel = "CHEWING"
        isComplete == chewing /\ newScale > CHEWING_DONE_SCALE
        afterChewing ==
            IF chewing
            THEN IF isComplete THEN 3
                 ELSE IF newScale > CHEWING_TEXT_SCALE /\ narrativeIndex < 2 THEN 2
                 ELSE narrativeIndex
            ELSE narrativeIndex
        newNarrativeIndex ==
            IF currentLevel = "WIND" /\ newScale > WIND_TEXT_SCALE /\ narrativeIndex = 0
            THEN 1 ELSE afterChewing
    IN  /\ playerScale' = newScale
        /\ isLevelComplete' = IF isComplete THEN TRUE ELSE isLevelComplete
        /\ narrativeIndex' = newNarrativeIndex
        /\ UNCHANGED <<levelVars, puzzleVars, envFeatures, inputVars, draggingNodeId,
                       isInteractiveHover, tetheredNodeId, nameVars, leafHealth,
                       rainVars, timerVars, playerVars, driver>>

\* Mutant: the early return on isLevelComplete is missing.
DamageLeaf_NoGuard(amount) ==
    /\ leafHealth' = Max(leafHealth - amount, 0)
    /\ UNCHANGED <<levelVars, narrativeIndex, puzzleVars, envFeatures, inputVars,
                   draggingNodeId, isInteractiveHover, tetheredNodeId, nameVars,
                   playerScale, rainVars, isLevelComplete, timerVars, playerVars, driver>>

\* Mutant: the floor Math.max(..., 0) is missing.
DamageLeaf_NoFloor(amount) ==
    IF isLevelComplete
    THEN UNCHANGED vars
    ELSE /\ leafHealth' = leafHealth - amount
         /\ UNCHANGED <<levelVars, narrativeIndex, puzzleVars, envFeatures, inputVars,
                        draggingNodeId, isInteractiveHover, tetheredNodeId, nameVars,
                        playerScale, rainVars, isLevelComplete, timerVars, playerVars, driver>>

DamageLeaf(amount) ==
    IF isLevelComplete
    THEN UNCHANGED vars
    ELSE /\ leafHealth' = Max(leafHealth - amount, 0)
         /\ UNCHANGED <<levelVars, narrativeIndex, puzzleVars, envFeatures, inputVars,
                        draggingNodeId, isInteractiveHover, tetheredNodeId, nameVars,
                        playerScale, rainVars, isLevelComplete, timerVars, playerVars, driver>>

\* Mutant: the completion test reads the health before the heal, so the call
\* that reaches 100 stores only leafHealth.
HealLeaf_TestsOldHealth(amount) ==
    LET newHealth == Min(leafHealth + amount, MAX_HEALTH)
    IN  IF isLevelComplete
        THEN UNCHANGED vars
        ELSE IF leafHealth >= MAX_HEALTH /\ ~isLevelComplete
             THEN /\ leafHealth' = newHealth
                  /\ isLevelComplete' = TRUE
                  /\ narrativeIndex' = 2
                  /\ UNCHANGED <<levelVars, puzzleVars, envFeatures, inputVars,
                                 draggingNodeId, isInteractiveHover, tetheredNodeId,
                                 nameVars, playerScale, rainVars, timerVars, playerVars, driver>>
             ELSE /\ leafHealth' = newHealth
                  /\ UNCHANGED <<levelVars, narrativeIndex, puzzleVars, envFeatures,
                                 inputVars, draggingNodeId, isInteractiveHover,
                                 tetheredNodeId, nameVars, playerScale, rainVars,
                                 isLevelComplete, timerVars, playerVars, driver>>

HealLeaf(amount) ==
    LET newHealth == Min(leafHealth + amount, MAX_HEALTH)
    IN  IF isLevelComplete
        THEN UNCHANGED vars
        ELSE IF newHealth >= MAX_HEALTH /\ ~isLevelComplete
             THEN /\ leafHealth' = newHealth
                  /\ isLevelComplete' = TRUE
                  /\ narrativeIndex' = 2
                  /\ UNCHANGED <<levelVars, puzzleVars, envFeatures, inputVars,
                                 draggingNodeId, isInteractiveHover, tetheredNodeId,
                                 nameVars, playerScale, rainVars, timerVars, playerVars, driver>>
             ELSE /\ leafHealth' = newHealth
                  /\ UNCHANGED <<levelVars, narrativeIndex, puzzleVars, envFeatures,
                                 inputVars, draggingNodeId, isInteractiveHover,
                                 tetheredNodeId, nameVars, playerScale, rainVars,
                                 isLevelComplete, timerVars, playerVars, driver>>

\* Mutant: every vehicle completes the level.
SelectVehicle_AnyType(type) ==
    /\ isLevelComplete' = TRUE
    /\ narrativeIndex' = 1
    /\ UNCHANGED <<levelVars, puzzleVars, envFeatures, inputVars, draggingNodeId,
                   isInteractiveHover, tetheredNodeId, nameVars, playerScale,
                   leafHealth, rainVars, timerVars, playerVars, driver>>

\* Mutant: the completion is stored without the narrative index.
SelectVehicle_NoNarrative(type) ==
    IF type = "TEAR"
    THEN /\ isLevelComplete' = TRUE
         /\ UNCHANGED <<levelVars, narrativeIndex, puzzleVars, envFeatures, inputVars,
                        draggingNodeId, isInteractiveHover, tetheredNodeId, nameVars,
                        playerScale, leafHealth, rainVars, timerVars, playerVars, driver>>
    ELSE UNCHANGED vars

SelectVehicle(type) ==
    IF type = "TEAR"
    THEN /\ isLevelComplete' = TRUE
         /\ narrativeIndex' = 1
         /\ UNCHANGED <<levelVars, puzzleVars, envFeatures, inputVars, draggingNodeId,
                        isInteractiveHover, tetheredNodeId, nameVars, playerScale,
                        leafHealth, rainVars, timerVars, playerVars, driver>>
    ELSE UNCHANGED vars

AdvanceNarrative ==
    /\ narrativeIndex' = narrativeIndex + 1
    /\ UNCHANGED <<levelVars, puzzleVars, envFeatures, inputVars, draggingNodeId,
                   isInteractiveHover, tetheredNodeId, nameVars, playerScale,
                   leafHealth, rainVars, isLevelComplete, timerVars, playerVars, driver>>

---------------------------------------------------------------------------
(* The rain ramp *)

Timer(active, extinguished) ==
    [active |-> active, hasTriggeredExtinguish |-> extinguished]

\* setInterval: one more interval, whose closure holds hasTriggeredExtinguish.
TriggerRain ==
    /\ isRaining' = TRUE
    /\ isInteractiveHover' = FALSE
    /\ timers' = Append(timers, Timer(TRUE, FALSE))
    /\ UNCHANGED <<levelVars, narrativeIndex, puzzleVars, envFeatures, inputVars,
                   draggingNodeId, tetheredNodeId, nameVars, playerScale, leafHealth,
                   rainLevel, isLevelComplete, extinguishCount, playerVars, driver>>

\* Mutant: the ramp stops only above the full level.
RainTick_StopsLate(t) ==
    /\ t \in DOMAIN timers
    /\ timers[t].active
    /\ IF rainLevel > RAIN_FULL_STEPS
       THEN /\ timers' = [timers EXCEPT ![t].active = FALSE]
            /\ isLevelComplete' = TRUE
            /\ narrativeIndex' = 1
            /\ UNCHANGED <<rainLevel, extinguishCount>>
       ELSE LET nextLevel == rainLevel + 1
                extinguish == ~timers[t].hasTriggeredExtinguish
                                 /\ nextLevel >= EXTINGUISH_STEPS
            IN  /\ extinguishCount' = IF extinguish THEN extinguishCount + 1
                                      ELSE extinguishCount
                /\ timers' = IF extinguish
                             THEN [timers EXCEPT ![t].hasTriggeredExtinguish = TRUE]
                             ELSE timers
                /\ rainLevel' = nextLevel
                /\ UNCHANGED <<isLevelComplete, narrativeIndex>>
    /\ UNCHANGED <<levelVars, puzzleVars, envFeatures, inputVars, draggingNodeId,
                   isInteractiveHover, tetheredNodeId, nameVars, playerScale,
                   leafHealth, isRaining, playerVars, driver>>

\* Mutant: the callback that sees the full level does not clear its interval.
RainTick_NeverClears(t) ==
    /\ t \in DOMAIN timers
    /\ timers[t].active
    /\ IF rainLevel >= RAIN_FULL_STEPS
       THEN /\ timers' = timers
            /\ isLevelComplete' = TRUE
            /\ narrativeIndex' = 1
            /\ UNCHANGED <<rainLevel, extinguishCount>>
       ELSE LET nextLevel == rainLevel + 1
                extinguish == ~timers[t].hasTriggeredExtinguish
                                 /\ nextLevel >= EXTINGUISH_STEPS
            IN  /\ extinguishCount' = IF extinguish THEN extinguishCount + 1
                                      ELSE extinguishCount
                /\ timers' = IF extinguish
                             THEN [timers EXCEPT ![t].hasTriggeredExtinguish = TRUE]
                             ELSE timers
                /\ rainLevel' = nextLevel
                /\ UNCHANGED <<isLevelComplete, narrativeIndex>>
    /\ UNCHANGED <<levelVars, puzzleVars, envFeatures, inputVars, draggingNodeId,
                   isInteractiveHover, tetheredNodeId, nameVars, playerScale,
                   leafHealth, isRaining, playerVars, driver>>

\* One run of the interval callback of timer t; a cleared interval never runs.
RainTick(t) ==
    /\ t \in DOMAIN timers
    /\ timers[t].active
    /\ IF rainLevel >= RAIN_FULL_STEPS
       THEN /\ timers' = [timers EXCEPT ![t].active = FALSE]
            /\ isLevelComplete' = TRUE
            /\ narrativeIndex' = 1
            /\ UNCHANGED <<rainLevel, extinguishCount>>
       ELSE LET nextLevel == rainLevel + 1
                extinguish == ~timers[t].hasTriggeredExtinguish
                                 /\ nextLevel >= EXTINGUISH_STEPS
            IN  /\ extinguishCount' = IF extinguish THEN extinguishCount + 1
                                      ELSE extinguishCount
                /\ timers' = IF extinguish
                             THEN [timers EXCEPT ![t].hasTriggeredExtinguish = TRUE]
                             ELSE timers
                /\ rainLevel' = nextLevel
                /\ UNCHANGED <<isLevelComplete, narrativeIndex>>
    /\ UNCHANGED <<levelVars, puzzleVars, envFeatures, inputVars, draggingNodeId,
                   isInteractiveHover, tetheredNodeId, nameVars, playerScale,
                   leafHealth, isRaining, playerVars, driver>>

---------------------------------------------------------------------------
(* Connections *)

\* Mutant: only the direction (a, b) is looked for.
PairExists_OneDirection(conns, a, b) ==
    \E i \in DOMAIN conns : conns[i][1] = a /\ conns[i][2] = b

PairExists(conns, a, b) ==
    \E i \in DOMAIN conns :
        \/ conns[i][1] = a /\ conns[i][2] = b
        \/ conns[i][1] = b /\ conns[i][2] = a

\* new Set(conns.flat())
ConnectedSet(conns) == UNION {{conns[i][1], conns[i][2]} : i \in DOMAIN conns}

\* sequenceOrder[i] of the code (0-based); NULL stands for undefined.
SequenceAt(i) ==
    IF i + 1 \in DOMAIN sequenceOrder THEN sequenceOrder[i + 1] ELSE NULL

\* Mutant: the pending drag is the source in every level.
SourceId_AlwaysDrag == draggingNodeId

SourceId == IF currentLevel = "CONNECTION" THEN tetheredNodeId ELSE draggingNodeId

\* Mutant: only the source is compared with the expected pair.
IsValidSequencePair_SourceOnly(sourceId, targetId) ==
    LET currentSource == SequenceAt(nextSequenceIndex)
        currentTarget == SequenceAt(nextSequenceIndex + 1)
    IN  /\ currentSource # NULL
        /\ currentTarget # NULL
        /\ sourceId = currentSource \/ sourceId = currentTarget

IsValidSequencePair(sourceId, targetId) ==
    LET currentSource == SequenceAt(nextSequenceIndex)
        currentTarget == SequenceAt(nextSequenceIndex + 1)
    IN  /\ currentSource # NULL
        /\ currentTarget # NULL
        /\ \/ sourceId = currentSource /\ targetId = currentTarget
           \/ sourceId = currentTarget /\ targetId = currentSource

\* Whether completeConnection(targetId) reaches the commit.
Accepts(targetId) ==
    /\ SourceId # NULL
    /\ SourceId # targetId
    /\ ~PairExists(connections, SourceId, targetId)
    /\ currentLevel = "CHAPTER_1" => IsValidSequencePair(SourceId, targetId)

\* Mutant: only the target node is marked.
MarkConnected_TargetOnly(ns, a, b) ==
    [i \in DOMAIN ns |->
        IF ns[i].id = b THEN [ns[i] EXCEPT !.connected = TRUE] ELSE ns[i]]

MarkConnected(ns, a, b) ==
    [i \in DOMAIN ns |->
        IF ns[i].id = a \/ ns[i].id = b THEN [ns[i] EXCEPT !.connected = TRUE] ELSE ns[i]]

\* Mutant: the endpoints are counted without the Set (conns.flat().length).
CoversAll_CountsEndpoints(conns, ns) == 2 * Len(conns) >= Len(ns) /\ Len(ns) > 0

CoversAll(conns, ns) == Cardinality(ConnectedSet(conns)) >= Len(ns) /\ Len(ns) > 0

\* Mutant: the tether level counts its connections like the other levels.
ConnectionNarrative_CountsConnections(isComplete, newConnections) == narrativeIndex + 1

ConnectionNarrative(isComplete, newConnections) ==
    IF currentLevel = "CONNECTION"
    THEN IF isComplete THEN 2
         ELSE IF narrativeIndex = 0 /\ Len(newConnections) > 0 THEN 1
         ELSE narrativeIndex
    ELSE narrativeIndex + 1

\* Mutant: a rejected attempt returns without clearing the drag.
CompleteConnection_RejectKeepsDrag(targetId) ==
    IF ~Accepts(targetId)
    THEN /\ draggingNodeId' = draggingNodeId
         /\ UNCHANGED <<levelVars, narrativeIndex, puzzleVars, envFeatures, inputVars,
                        isInteractiveHover, tetheredNodeId, nameVars, playerScale,
                        leafHealth, rainVars, isLevelComplete, timerVars, playerVars, driver>>
    ELSE LET newConnections == Append(connections, <<SourceId, targetId>>)
             isComplete == CoversAll(newConnections, nodes)
         IN  /\ connections' = newConnections
             /\ nodes' = MarkConnected(nodes, SourceId, targetId)
             /\ draggingNodeId' = NULL
             /\ narrativeIndex' = ConnectionNarrative(isComplete, newConnections)
             /\ isLevelComplete' = isComplete
             /\ nextSequenceIndex' = IF currentLevel = "CHAPTER_1"
                                     THEN nextSequenceIndex + 1
                                     ELSE nextSequenceIndex
             /\ UNCHANGED <<levelVars, sequenceOrder, envFeatures, inputVars,
                            isInteractiveHover, tetheredNodeId, nameVars, playerScale,
                            leafHealth, rainVars, timerVars, playerVars, driver>>

\* Mutant: a commit replaces the list by the new pair.
CompleteConnection_KeepsLastOnly(targetId) ==
    IF ~Accepts(targetId)
    THEN /\ draggingNodeId' = NULL
         /\ UNCHANGED <<levelVars, narrativeIndex, puzzleVars, envFeatures, inputVars,
                        isInteractiveHover, tetheredNodeId, nameVars, playerScale,
                        leafHealth, rainVars, isLevelComplete, timerVars, playerVars, driver>>
    ELSE LET newConnections == Append(connections, <<SourceId, targetId>>)
             isComplete == CoversAll(newConnections, nodes)
         IN  /\ connections' = <<<<SourceId, targetId>>>>
             /\ nodes' = MarkConnected(nodes, SourceId, targetId)
             /\ draggingNodeId' = NULL
             /\ narrativeIndex' = ConnectionNarrative(isComplete, newConnections)
             /\ isLevelComplete' = isComplete
             /\ nextSequenceIndex' = IF currentLevel = "CHAPTER_1"
                                     THEN nextSequenceIndex + 1
                                     ELSE nextSequenceIndex
             /\ UNCHANGED <<levelVars, sequenceOrder, envFeatures, inputVars,
                            isInteractiveHover, tetheredNodeId, nameVars, playerScale,
                            leafHealth, rainVars, timerVars, playerVars, driver>>

\* Mutant: a commit leaves the sequence cursor where it is.
CompleteConnection_CursorStays(targetId) ==
    IF ~Accepts(targetId)
    THEN /\ draggingNodeId' = NULL
         /\ UNCHANGED <<levelVars, narrativeIndex, puzzleVars, envFeatures, inputVars,
                        isInteractiveHover, tetheredNodeId, nameVars, playerScale,
                        leafHealth, rainVars, isLevelComplete, timerVars, playerVars, driver>>
    ELSE LET newConnections == Append(connections, <<SourceId, targetId>>)
             isComplete == CoversAll(newConnections, nodes)
         IN  /\ connections' = newConnections
             /\ nodes' = MarkConnected(nodes, SourceId, targetId)
             /\ draggingNodeId' = NULL
             /\ narrativeIndex' = ConnectionNarrative(isComplete, newConnections)
             /\ isLevelComplete' = isComplete
             /\ nextSequenceIndex' = nextSequenceIndex
             /\ UNCHANGED <<levelVars, sequenceOrder, envFeatures, inputVars,
                            isInteractiveHover, tetheredNodeId, nameVars, playerScale,
                            leafHealth, rainVars, timerVars, playerVars, driver>>

CompleteConnection(targetId) ==
    IF ~Accepts(targetId)
    THEN /\ draggingNodeId' = NULL
         /\ UNCHANGED <<levelVars, narrativeIndex, puzzleVars, envFeatures, inputVars,
                        isInteractiveHover, tetheredNodeId, nameVars, playerScale,
                        leafHealth, rainVars, isLevelComplete, timerVars, playerVars, driver>>
    ELSE LET newConnections == Append(connections, <<SourceId, targetId>>)
             isComplete == CoversAll(newConnections, nodes)
         IN  /\ connections' = newConnections
             /\ nodes' = MarkConnected(nodes, SourceId, targetId)
             /\ draggingNodeId' = NULL
             /\ narrativeIndex' = ConnectionNarrative(isComplete, newConnections)
             /\ isLevelComplete' = isComplete
             /\ nextSequenceIndex' = IF currentLevel = "CHAPTER_1"
                                     THEN nextSequenceIndex + 1
                                     ELSE nextSequenceIndex
             /\ UNCHANGED <<levelVars, sequenceOrder, envFeatures, inputVars,
                            isInteractiveHover, tetheredNodeId, nameVars, playerScale,
                            leafHealth, rainVars, timerVars, playerVars, driver>>

---------------------------------------------------------------------------
(* Level transition *)

\* Mutant: leafHealth is missing from the reset.
ResetMechanics_KeepsLeafHealth ==
    /\ bubblesPopped' = 0
    /\ fragmentsCollected' = 0
    /\ playerScale' = 10
    /\ UNCHANGED leafHealth
    /\ lastBlockTime' = 0
    /\ rainLevel' = 0
    /\ isRaining' = FALSE
    /\ isInteractiveHover' = FALSE

\* "Reset new mechanics": the last block of the object startLevel sets.
ResetMechanics ==
    /\ bubblesPopped' = 0
    /\ fragmentsCollected' = 0
    /\ playerScale' = 10
    /\ leafHealth' = 0
    /\ lastBlockTime' = 0
    /\ rainLevel' = 0
    /\ isRaining' = FALSE
    /\ isInteractiveHover' = FALSE

\* Mutant: the generated features are merged into those of the level before.
StartLevel_AppendsFeatures(level, count, platforms) ==
    LET genResult == Generate(level, count, platforms)
        startP == START_POSITIONS[level]
    IN  /\ currentLevel' = level
        /\ interactionMode' = ModeOf(level)
        /\ nodes' = genResult.nodes
        /\ envFeatures' = envFeatures \o genResult.env
        /\ connections' = <<>>
        /\ playerPos' = startP
        /\ cursorWorldPos' = startP
        /\ isLevelComplete' = FALSE
        /\ narrativeIndex' = 0
        /\ draggingNodeId' = NULL
        /\ sequenceOrder' = SequenceOf(level, genResult)
        /\ nextSequenceIndex' = 0
        /\ tetheredNodeId' = NULL
        /\ ResetMechanics
        /\ UNCHANGED <<isMouseDown, hoveredNodeId, timerVars, playerVars, driver>>

\* Mutant: the connections of the level before are kept.
StartLevel_KeepsConnections(level, count, platforms) ==
    LET genResult == Generate(level, count, platforms)
        startP == START_POSITIONS[level]
    IN  /\ currentLevel' = level
        /\ interactionMode' = ModeOf(level)
        /\ nodes' = genResult.nodes
        /\ envFeatures' = genResult.env
        /\ connections' = connections
        /\ playerPos' = startP
        /\ cursorWorldPos' = startP
        /\ isLevelComplete' = FALSE
        /\ narrativeIndex' = 0
        /\ draggingNodeId' = NULL
        /\ sequenceOrder' = SequenceOf(level, genResult)
        /\ nextSequenceIndex' = 0
        /\ tetheredNodeId' = NULL
        /\ ResetMechanics
        /\ UNCHANGED <<isMouseDown, hoveredNodeId, timerVars, playerVars, driver>>

\* count and platforms are the random outcomes generateConnectionEnv draws.
StartLevel(level, count, platforms) ==
    LET genResult == Generate(level, count, platforms)
        startP == START_POSITIONS[level]
    IN  /\ currentLevel' = level
        /\ interactionMode' = ModeOf(level)
        /\ nodes' = genResult.nodes
        /\ envFeatures' = genResult.env
        /\ connections' = <<>>
        /\ playerPos' = startP
        /\ cursorWorldPos' = startP
        /\ isLevelComplete' = FALSE
        /\ narrativeIndex' = 0
        /\ draggingNodeId' = NULL
        /\ sequenceOrder' = SequenceOf(level, genResult)
        /\ nextSequenceIndex' = 0
        /\ tetheredNodeId' = NULL
        /\ ResetMechanics
        /\ UNCHANGED <<isMouseDown, hoveredNodeId, timerVars, playerVars, driver>>

\* Mutant: the level that is active is restarted.
ResetGame_RestartsLevel == StartLevel(currentLevel, MIN_NODES, {})

ResetGame == StartLevel("PROLOGUE", MIN_NODES, {})

---------------------------------------------------------------------------
(* Bounds and inputs of the exploration *)

MaxFragments == 6
MaxNarrative == 4
MaxFreeConnections == 3
MaxTimers == 2
MaxClock == 2
MaxZ == 34

GHOST == "ghost"

NodeCounts == MIN_NODES..MAX_NODES
PuzzleNodeCounts == {MIN_NODES, MIN_NODES + 1}
PlatformInputs(count) == {{}, 0..(count - 1)}
RainLevels == {"SUN", "NAME"}

Positions == {<<0, 1, -24>>, <<0, 1, 29>>, <<3, 0, 2>>}
\* Two bubbles of the Name level, a fragment and an id of no feature.
BubbleInputs == {"bubble-0", "bubble-1", "frag-bubble-0-0", "bubble-15"}
FragmentInputs == {"frag-bubble-0-0", "frag-bubble-0-1", "frag-bubble-0-2",
                   "frag-bubble-1-0", "frag-bubble-1-1", "frag-missing"}
\* 0.1 is the growth of one eaten flesh ball (World.tsx:156); 2.5, 8 and 100
\* are the amounts of the store's tests.
GrowAmounts == {1, 25, 80, 1000}
DamageAmounts == {5, 200}
HealAmounts == {1, 99}
VehicleTypes == {"HAPPY", "ANGRY", "ENVY", "TEAR"}
\* What one frame adds to z (velocity times delta, in units of 0.5): at rest,
\* a drift, a slingshot launch forwards and one backwards.
FrameSteps == {0, 1, 6, -6}

\* The ids handed to the connection actions: in the two puzzle levels ids of the
\* level's nodes and one id that is no node, elsewhere two ids and that one.
DragInputs ==
    CASE currentLevel = "CHAPTER_1" -> Range(sequenceOrder) \cup {GHOST}
      [] currentLevel = "CONNECTION" -> {GHOST}
      [] OTHER -> {"n1-0", "n1-1", GHOST}

TetherInputs ==
    IF currentLevel = "CONNECTION"
    THEN {"n2-rnd-0", "n2-rnd-2", "n2-rnd-4"}
    ELSE {"n1-0"}

\* In CONNECTION the player reaches the node that follows the tethered one
\* along the spine, or an id that is no node.
NextAlongSpine(id) ==
    CASE id = "n2-rnd-0" -> {"n2-rnd-1"}
      [] id = "n2-rnd-2" -> {"n2-rnd-3"}
      [] id = "n2-rnd-4" -> {"n2-rnd-5"}
      [] OTHER -> {}

TargetInputs ==
    CASE currentLevel = "CHAPTER_1" -> Range(sequenceOrder) \cup {GHOST}
      [] currentLevel = "CONNECTION" -> NextAlongSpine(tetheredNodeId) \cup {GHOST}
      [] OTHER -> {"n1-0", "n1-1", GHOST}

---------------------------------------------------------------------------
(* Next-state relations: the store driven through one group of its actions *)

\* Only generateConnectionEnv draws random outcomes.
EnterLevel(levels, counts) ==
    \E level \in levels :
        \E count \in IF level = "CONNECTION" THEN counts ELSE {MIN_NODES} :
            \E platforms \in IF level = "CONNECTION" THEN PlatformInputs(count) ELSE {{}} :
                StartLevel(level, count, platforms)

---------------------------------------------------------------------------
(* The Player component in the Prologue and the sequence level *)

\* The levels whose frame callback is modelled: in both the callback calls no
\* store action other than startLevel and updatePlayerPos.
FrameLevels == {"PROLOGUE", "CHAPTER_1"}

\* 5 and 14.0 in units of 0.5: the square of the resync distance and the z of
\* the Prologue exit.
SYNC_DIST2 == 100
EXIT_Z == 28

Dist2(a, b) ==
    (a[1] - b[1]) * (a[1] - b[1]) + (a[2] - b[2]) * (a[2] - b[2])
        + (a[3] - b[3]) * (a[3] - b[3])

\* The physics position sync that opens the frame.
Synced == IF Dist2(position, playerPos) > SYNC_DIST2 THEN playerPos ELSE position

\* One call of the useFrame callback, which holds the currentLevel of the last
\* render. The player moves along the tunnel axis (x = 0, where the clamp of
\* the Prologue changes nothing); dz is the frame's velocity times delta. In
\* the Prologue a position beyond the exit calls startLevel('CHAPTER_1'); the
\* callback then goes on to its end, where it adds the movement to its position
\* and hands the result to updatePlayerPos.
PlayerFrame(dz) ==
    LET pos == <<Synced[1], Synced[2], Synced[3] + dz>>
        genResult == Generate("CHAPTER_1", MIN_NODES, {})
    IN  /\ renderedLevel \in FrameLevels
        /\ position' = pos
        /\ renderedLevel' = renderedLevel
        /\ IF renderedLevel = "PROLOGUE" /\ Synced[3] > EXIT_Z
           THEN /\ currentLevel' = "CHAPTER_1"
                /\ interactionMode' = ModeOf("CHAPTER_1")
                /\ nodes' = genResult.nodes
                /\ envFeatures' = genResult.env
                /\ connections' = <<>>
                /\ cursorWorldPos' = START_POSITIONS["CHAPTER_1"]
                /\ isLevelComplete' = FALSE
                /\ narrativeIndex' = 0
                /\ draggingNodeId' = NULL
                /\ sequenceOrder' = SequenceOf("CHAPTER_1", genResult)
                /\ nextSequenceIndex' = 0
                /\ tetheredNodeId' = NULL
                /\ ResetMechanics
                /\ playerPos' = pos
                /\ UNCHANGED <<isMouseDown, hoveredNodeId, timerVars, driver>>
           ELSE /\ playerPos' = pos
                /\ UNCHANGED <<levelVars, narrativeIndex, puzzleVars, envFeatures,
                               cursorWorldPos, isMouseDown, hoveredNodeId,
                               lastBlockTime, draggingNodeId, isInteractiveHover,
                               tetheredNodeId, nameVars, playerScale, leafHealth,
                               rainVars, isLevelComplete, timerVars, driver>>

\* The useLayoutEffect on currentLevel: the render that follows a change of
\* the level copies the store's playerPos into the position ref.
LevelLayoutEffect ==
    /\ renderedLevel # currentLevel
    /\ renderedLevel' = currentLevel
    /\ position' = playerPos
    /\ UNCHANGED <<levelVars, narrativeIndex, puzzleVars, envFeatures, inputVars,
                   draggingNodeId, isInteractiveHover, tetheredNodeId, nameVars,
                   playerScale, leafHealth, rainVars, isLevelComplete, timerVars,
                   driver>>

---------------------------------------------------------------------------
(* The proceed control of the UI *)

\* Mutant: the Home level is left out of the journey.
NextLevelOf_SkipsHome(level) ==
    CASE level = "PROLOGUE" -> "CHAPTER_1"
      [] level = "CHAPTER_1" -> "NAME"
      [] level = "NAME" -> "CHEWING"
      [] level = "CHEWING" -> "WIND"
      [] level = "WIND" -> "TRAVEL"
      [] level = "TRAVEL" -> "CONNECTION"
      [] level = "CONNECTION" -> "SUN"
      [] level = "HOME" -> "SUN"

NextLevelOf(level) ==
    CASE level = "PROLOGUE" -> "CHAPTER_1"
      [] level = "CHAPTER_1" -> "NAME"
      [] level = "NAME" -> "CHEWING"
      [] level = "CHEWING" -> "WIND"
      [] level = "WIND" -> "TRAVEL"
      [] level = "TRAVEL" -> "CONNECTION"
      [] level = "CONNECTION" -> "HOME"
      [] level = "HOME" -> "SUN"

handleNextLevel ==
    IF currentLevel = "SUN"
    THEN ResetGame
    ELSE EnterLevel({NextLevelOf(currentLevel)}, NodeCounts)

\* The proceed button, rendered while the level is complete and is not SUN.
ProceedButton == isLevelComplete /\ currentLevel # "SUN" /\ handleNextLevel

\* The rebirth button of the Sun level.
RebirthButton == currentLevel = "SUN" /\ isLevelComplete /\ ResetGame

NextName ==
    \/ EnterLevel(Levels, {MIN_NODES})
    \/ \E id \in BubbleInputs : PopBubble(id)
    \/ \E id \in FragmentInputs : fragmentsCollected < MaxFragments /\ AbsorbFragment(id)
    \/ \E type \in VehicleTypes : SelectVehicle(type)
    \/ \E isHover \in BOOLEAN : SetInteractiveHover(isHover)

NextChew ==
    \/ EnterLevel(Levels, {MIN_NODES})
    \/ \E amount \in GrowAmounts : GrowPlayer(amount)
    \/ HoverFleshBall
    \/ narrativeIndex < MaxNarrative /\ AdvanceNarrative

NextWind ==
    \/ EnterLevel(Levels, {MIN_NODES})
    \/ \E amount \in DamageAmounts : DamageLeaf(amount)
    \/ \E amount \in HealAmounts : HealLeaf(amount)

NextPuzzle ==
    \/ EnterLevel(Levels, PuzzleNodeCounts)
    \/ \E id \in DragInputs : StartDragConnection(id)
    \/ CancelDrag
    \/ \E id \in TetherInputs \cup {NULL} : SetTetheredNode(id)
    \/ \E targetId \in TargetInputs :
          /\ currentLevel # "CHAPTER_1" => Len(connections) < MaxFreeConnections
          /\ CompleteConnection(targetId)

NextRain ==
    \/ EnterLevel(RainLevels, {MIN_NODES})
    \/ Len(timers) < MaxTimers /\ TriggerRain
    \/ \E t \in 1..MaxTimers : RainTick(t)

NextFrame ==
    \/ EnterLevel(Levels, NodeCounts)
    \/ ResetGame
    \/ \E pos \in Positions : SetCursorWorldPos(pos)
    \/ \E isDown \in BOOLEAN : SetMouseDown(isDown)
    \/ \E pos \in Positions : UpdatePlayerPos(pos)
    \/ \E id \in {"n1-0", NULL} : SetHoveredNode(id)
    \/ \E now \in 1..MaxClock : TriggerPlayerBlock(now)

\* The Player component over the Prologue and the sequence level: key '1',
\* the frames and the layout effect.
NextPlayer ==
    \/ ResetGame
    \/ \E dz \in FrameSteps :
          /\ Synced[3] + dz \in (-MaxZ)..MaxZ
          /\ PlayerFrame(dz)
    \/ LevelLayoutEffect

\* The journey through the buttons of the UI, with store actions that
\* complete a level.
NextUI ==
    \/ ProceedButton
    \/ RebirthButton
    \/ \E type \in VehicleTypes : SelectVehicle(type)
    \/ \E amount \in HealAmounts : HealLeaf(amount)

Next ==
    \/ driver = "name" /\ NextName
    \/ driver = "chew" /\ NextChew
    \/ driver = "wind" /\ NextWind
    \/ driver = "puzzle" /\ NextPuzzle
    \/ driver = "rain" /\ NextRain
    \/ driver = "frame" /\ NextFrame
    \/ driver = "ui" /\ NextUI

Spec == Init /\ [][Next]_vars

InitName == StoreInit /\ PlayerInit /\ driver = "name"
InitChew == StoreInit /\ PlayerInit /\ driver = "chew"
InitWind == StoreInit /\ PlayerInit /\ driver = "wind"
InitPuzzle == StoreInit /\ PlayerInit /\ driver = "puzzle"
InitRain == StoreInit /\ PlayerInit /\ driver = "rain"
InitFrame == StoreInit /\ PlayerInit /\ driver = "frame"
InitPlayer == StoreInit /\ PlayerInit /\ driver = "player"
InitUI == StoreInit /\ PlayerInit /\ driver = "ui"

SpecName == InitName /\ [][NextName]_vars
SpecChew == InitChew /\ [][NextChew]_vars
SpecWind == InitWind /\ [][NextWind]_vars
SpecPuzzle == InitPuzzle /\ [][NextPuzzle]_vars
SpecRain == InitRain /\ [][NextRain]_vars
SpecFrame == InitFrame /\ [][NextFrame]_vars
SpecUI == InitUI /\ [][NextUI]_vars

\* The Player component on its own: a frame chains two store calls, startLevel
\* and updatePlayerPos, into one step, so it is kept apart from the
\* specifications above, whose every step is one store call.
SpecPlayer == InitPlayer /\ [][NextPlayer]_vars

\* One play-through of the Sun level: the store after startLevel('SUN'), then
\* clicks on the mushroom and the ticks of the intervals they start, which the
\* browser keeps delivering every 50 ms.
InitSun ==
    /\ currentLevel = "SUN"
    /\ interactionMode = ModeOf("SUN")
    /\ narrativeIndex = 0
    /\ nodes = generateSunEnv.nodes
    /\ connections = <<>>
    /\ envFeatures = generateSunEnv.env
    /\ playerPos = START_POSITIONS["SUN"]
    /\ cursorWorldPos = START_POSITIONS["SUN"]
    /\ isMouseDown = FALSE
    /\ hoveredNodeId = NULL
    /\ draggingNodeId = NULL
    /\ isInteractiveHover = FALSE
    /\ sequenceOrder = SequenceOf("SUN", generateSunEnv)
    /\ nextSequenceIndex = 0
    /\ tetheredNodeId = NULL
    /\ bubblesPopped = 0
    /\ fragmentsCollected = 0
    /\ playerScale = 10
    /\ leafHealth = 0
    /\ lastBlockTime = 0
    /\ rainLevel = 0
    /\ isRaining = FALSE
    /\ isLevelComplete = FALSE
    /\ timers = <<>>
    /\ extinguishCount = 0
    /\ position = START_POSITIONS["SUN"]
    /\ renderedLevel = "SUN"
    /\ driver = "rain"

NextRamp ==
    \/ Len(timers) < MaxTimers /\ TriggerRain
    \/ \E t \in 1..MaxTimers : RainTick(t)

SpecRamp ==
    InitSun /\ [][NextRamp]_vars /\ \A t \in 1..MaxTimers : WF_vars(RainTick(t))

---------------------------------------------------------------------------
(* Properties *)

\* A step of startLevel, for some level and some outcome of the generator.
StartLevelStep ==
    \/ /\ currentLevel' \in Levels \ {"CONNECTION"}
       /\ StartLevel(currentLevel', MIN_NODES, {})
    \/ /\ currentLevel' = "CONNECTION"
       /\ \E count \in NodeCounts :
             \E platforms \in PlatformInputs(count) :
                 StartLevel("CONNECTION", count, platforms)

ActiveTimers == {t \in DOMAIN timers : timers[t].active}

PairOf(c) == {c[1], c[2]}

\* C1: every startLevel step, from whatever state, ends with no connection, every
\* per-mechanic counter at its zero value (scale 1), no tethered or dragged
\* node, narrativeIndex 0 and isLevelComplete false.
C1_StartLevelResets ==
    [][StartLevelStep =>
          /\ connections' = <<>>
          /\ bubblesPopped' = 0
          /\ fragmentsCollected' = 0
          /\ playerScale' = 10
          /\ leafHealth' = 0
          /\ rainLevel' = 0
          /\ isRaining' = FALSE
          /\ nextSequenceIndex' = 0
          /\ tetheredNodeId' = NULL
          /\ draggingNodeId' = NULL
          /\ narrativeIndex' = 0
          /\ isLevelComplete' = FALSE]_vars

\* A level entered after a ramp that had already put the sun out: rain state of
\* the previous level is gone.
C1_Witness ==
    /\ extinguishCount > 0
    /\ currentLevel = "NAME"
    /\ rainLevel = 0
    /\ ~isRaining
    /\ ~isLevelComplete
    /\ narrativeIndex = 0

\* C2: once isLevelComplete is true, only a startLevel step makes it false.
C2_CompletionLatched ==
    [][(isLevelComplete /\ ~StartLevelStep) => isLevelComplete']_vars

\* C3: at most one rain-ramp interval is active in any reachable state.
C3_SingleRamp == Cardinality(ActiveTimers) <= 1

\* C4: no unordered pair of ids appears twice in connections, in either order.
C4_NoDuplicatePair ==
    \A i, j \in DOMAIN connections :
        i # j => PairOf(connections[i]) # PairOf(connections[j])

\* Two connections committed and the reverse of one of them about to be asked for.
C4_Witness ==
    /\ Len(connections) >= 2
    /\ \E i \in DOMAIN connections :
          /\ draggingNodeId = connections[i][2]
          /\ connections[i][1] \in TargetInputs
    /\ currentLevel \notin {"CHAPTER_1", "CONNECTION"}

ExpectedPair == {SequenceAt(nextSequenceIndex), SequenceAt(nextSequenceIndex + 1)}

\* C5: in CHAPTER_1 a completeConnection step commits only the expected pair of the
\* sequence; for any other pair connections is unchanged and draggingNodeId null.
C5_SequenceOnly ==
    [][currentLevel = "CHAPTER_1" =>
          \A targetId \in TargetInputs :
              CompleteConnection(targetId) =>
                  IF {draggingNodeId, targetId} = ExpectedPair
                  THEN TRUE
                  ELSE connections' = connections /\ draggingNodeId' = NULL]_vars

\* sequenceOrder[0] is dragged and sequenceOrder[2] can be the target.
C5_Witness ==
    /\ currentLevel = "CHAPTER_1"
    /\ connections = <<>>
    /\ nextSequenceIndex = 0
    /\ draggingNodeId = SequenceAt(0)
    /\ SequenceAt(2) \in TargetInputs

\* C6: in CHAPTER_1 the connections are the consecutive pairs of sequenceOrder in
\* order, and isLevelComplete is true exactly when the last pair is connected.
C6_CompleteAtLastPair ==
    currentLevel = "CHAPTER_1" =>
        /\ \A i \in DOMAIN connections :
              PairOf(connections[i]) = {SequenceAt(i - 1), SequenceAt(i)}
        /\ isLevelComplete <=> Len(connections) = Len(sequenceOrder) - 1

C6_Witness ==
    /\ currentLevel = "CHAPTER_1"
    /\ Len(connections) = Len(sequenceOrder) - 1
    /\ isLevelComplete

AllNodesCovered ==
    /\ Len(nodes) > 0
    /\ \A i \in DOMAIN nodes : nodes[i].id \in ConnectedSet(connections)

\* C7: once a connection is committed, isLevelComplete is true exactly when every
\* node id of the level is in some connection.
C7_CompleteIffCovered ==
    Len(connections) > 0 => (isLevelComplete <=> AllNodesCovered)

\* C8: a step that turns isLevelComplete from false to true is one of the
\* completing actions and stores the narrativeIndex of that completion with it.
C8_CompletionWithNarrative ==
    [][(~isLevelComplete /\ isLevelComplete') =>
          /\ (\E id \in FragmentInputs : AbsorbFragment(id)) => narrativeIndex' = 1
          /\ (\E amount \in GrowAmounts : GrowPlayer(amount))
                => currentLevel = "CHEWING" /\ narrativeIndex' = 3
          /\ (\E amount \in HealAmounts : HealLeaf(amount)) => narrativeIndex' = 2
          /\ (\E type \in VehicleTypes : SelectVehicle(type)) => narrativeIndex' = 1
          /\ (\E t \in DOMAIN timers : RainTick(t)) => narrativeIndex' = 1
          /\ (\E targetId \in TargetInputs : CompleteConnection(targetId))
                => narrativeIndex' = IF currentLevel = "CONNECTION"
                                     THEN 2 ELSE narrativeIndex + 1
          /\ \/ \E id \in FragmentInputs : AbsorbFragment(id)
             \/ \E amount \in GrowAmounts : GrowPlayer(amount)
             \/ \E amount \in HealAmounts : HealLeaf(amount)
             \/ \E type \in VehicleTypes : SelectVehicle(type)
             \/ \E t \in DOMAIN timers : RainTick(t)
             \/ \E targetId \in TargetInputs : CompleteConnection(targetId)]_vars

\* TRAVEL completed by selectVehicle('TEAR').
C8_Witness ==
    /\ currentLevel = "TRAVEL"
    /\ isLevelComplete
    /\ narrativeIndex = 1
    /\ fragmentsCollected = 0
    /\ timers = <<>>

\* C9: the step that brings leafHealth to 100 sets isLevelComplete and
\* narrativeIndex 2 with it, and leafHealth is never 100 in an incomplete level.
C9_HealCompletesAtomically ==
    /\ [](leafHealth = MAX_HEALTH => isLevelComplete)
    /\ [][(leafHealth # MAX_HEALTH /\ leafHealth' = MAX_HEALTH)
             => (isLevelComplete' /\ narrativeIndex' = 2)]_vars

C9_Witness ==
    /\ currentLevel = "WIND"
    /\ leafHealth = MAX_HEALTH
    /\ isLevelComplete
    /\ narrativeIndex = 2

\* C10 as claimed: leafHealth is in 0..100, and from every reachable state
\* damageLeaf(a) leaves max(leafHealth - a, 0) and healLeaf(a) leaves
\* min(leafHealth + a, 100).
C10_AlwaysClampedUpdate ==
    /\ leafHealth \in 0..MAX_HEALTH
    /\ \A amount \in DamageAmounts :
          ENABLED (DamageLeaf(amount) /\ leafHealth' = Max(leafHealth - amount, 0))
    /\ \A amount \in HealAmounts :
          ENABLED (HealLeaf(amount) /\ leafHealth' = Min(leafHealth + amount, MAX_HEALTH))

\* C10 amended: leafHealth is in 0..100; while isLevelComplete is false
\* damageLeaf(a) leaves max(leafHealth - a, 0) and healLeaf(a) leaves
\* min(leafHealth + a, 100); once it is true both leave leafHealth as it is.
C10_ClampedUntilComplete ==
    /\ leafHealth \in 0..MAX_HEALTH
    /\ \A amount \in DamageAmounts :
          ENABLED (DamageLeaf(amount)
                     /\ leafHealth' = IF isLevelComplete THEN leafHealth
                                      ELSE Max(leafHealth - amount, 0))
    /\ \A amount \in HealAmounts :
          ENABLED (HealLeaf(amount)
                     /\ leafHealth' = IF isLevelComplete THEN leafHealth
                                      ELSE Min(leafHealth + amount, MAX_HEALTH))

\* A healed leaf that the next damageLeaf(5) takes to the floor.
C10_Witness ==
    /\ currentLevel = "WIND"
    /\ ~isLevelComplete
    /\ leafHealth \in 1..4

\* C11: in every state where isLevelComplete is true, no damageLeaf call and no
\* healLeaf call changes any field of the store.
C11_NoOpOnceComplete ==
    isLevelComplete =>
        /\ \A amount \in DamageAmounts : ~ENABLED (DamageLeaf(amount) /\ vars' # vars)
        /\ \A amount \in HealAmounts : ~ENABLED (HealLeaf(amount) /\ vars' # vars)

\* A won Wind level whose full leaf a damageLeaf call would otherwise lower.
C11_Witness ==
    /\ currentLevel = "WIND"
    /\ isLevelComplete
    /\ leafHealth = MAX_HEALTH
    /\ ENABLED (DamageLeaf(5) /\ UNCHANGED vars)

\* C12: playerScale is in 1..10 (10..100 tenths) in every reachable state, only a
\* startLevel step lowers it, every growPlayer(amount) step leaves
\* min(playerScale + amount, 10), and growPlayer(100) from scale 1 leaves 10.
C12_ScaleBounded ==
    /\ [](playerScale \in 10..MAX_SCALE)
    /\ [](playerScale = 10 => ENABLED (GrowPlayer(1000) /\ playerScale' = MAX_SCALE))
    /\ [][/\ playerScale' < playerScale => StartLevelStep
          /\ \A amount \in GrowAmounts :
                GrowPlayer(amount) =>
                    playerScale' = Min(playerScale + amount, MAX_SCALE)]_vars

\* The ceiling reached in a level that growPlayer does not complete.
C12_Witness ==
    /\ currentLevel = "WIND"
    /\ playerScale = MAX_SCALE
    /\ ~isLevelComplete

\* C13 as claimed: in CHEWING every growPlayer step whose resulting scale exceeds
\* 3.0 while narrativeIndex < 2 leaves narrativeIndex 2, every one whose
\* resulting scale exceeds 8 leaves isLevelComplete true and narrativeIndex 3,
\* and one whose resulting scale is 8 or less does not complete the level.
C13_ThresholdsAsClaimed ==
    [][\A amount \in GrowAmounts :
          (currentLevel = "CHEWING" /\ GrowPlayer(amount)) =>
              /\ (playerScale' > 30 /\ narrativeIndex < 2) => narrativeIndex' = 2
              /\ playerScale' > 80 => (isLevelComplete' /\ narrativeIndex' = 3)
              /\ playerScale' <= 80 => isLevelComplete' = isLevelComplete]_vars

\* C13 amended: in CHEWING a growPlayer step whose resulting scale exceeds 8
\* leaves isLevelComplete true and narrativeIndex 3; one whose resulting scale
\* exceeds 3.0 but not 8 leaves narrativeIndex 2 if it was below 2 and
\* unchanged otherwise (the advance happens once); one whose resulting scale is
\* 8 or less does not complete the level.
C13_ThresholdsByResultingScale ==
    [][\A amount \in GrowAmounts :
          (currentLevel = "CHEWING" /\ GrowPlayer(amount)) =>
              /\ playerScale' > 80 => (isLevelComplete' /\ narrativeIndex' = 3)
              /\ playerScale' <= 80 =>
                    /\ isLevelComplete' = isLevelComplete
                    /\ narrativeIndex' = IF playerScale' > 30 /\ narrativeIndex < 2
                                         THEN 2 ELSE narrativeIndex]_vars

\* The advance to narrativeIndex 2 in a Chewing level not yet complete, at the
\* largest scale that does not complete it.
C13_Witness ==
    /\ currentLevel = "CHEWING"
    /\ playerScale = 80
    /\ narrativeIndex = 2
    /\ ~isLevelComplete

FeatureIds(env) == {env[i].id : i \in DOMAIN env}

\* C14: a popBubble(id) step for an id present in envFeatures leaves no feature
\* with that id, adds exactly 3 features, all of type FRAGMENT, keeps every
\* other feature in its order, raises bubblesPopped by 1 and the number of
\* features by 2.
C14_PopBubbleEffect ==
    [][\A id \in BubbleInputs :
          (HasFeature(id) /\ PopBubble(id)) =>
              LET added == {i \in DOMAIN envFeatures' :
                               envFeatures'[i].id \notin FeatureIds(envFeatures)}
              IN  /\ id \notin FeatureIds(envFeatures')
                  /\ Cardinality(added) = 3
                  /\ \A i \in added : envFeatures'[i].type = "FRAGMENT"
                  /\ SelectSeq(envFeatures', LAMBDA f : f.id \in FeatureIds(envFeatures))
                        = SelectSeq(envFeatures, LAMBDA f : f.id # id)
                  /\ bubblesPopped' = bubblesPopped + 1
                  /\ Len(envFeatures') = Len(envFeatures) + 2]_vars

\* The Name level after its first bubble was popped: 14 bubbles and 3 fragments.
C14_Witness ==
    /\ currentLevel = "NAME"
    /\ bubblesPopped = 1
    /\ Len(envFeatures) = 17
    /\ Cardinality({i \in DOMAIN envFeatures : envFeatures[i].type = "FRAGMENT"}) = 3

\* C15: every absorbFragment step raises fragmentsCollected, which startLevel set
\* to 0, by one, whether or not the id is a feature, and leaves isLevelComplete
\* true exactly if the new count is 5 or more; the step that reaches 5 leaves
\* narrativeIndex 1 and every step to a smaller count leaves it unchanged.
C15_CompleteAtFiveFragments ==
    [][\A id \in FragmentInputs :
          AbsorbFragment(id) =>
              /\ fragmentsCollected' = fragmentsCollected + 1
              /\ isLevelComplete' <=> fragmentsCollected' >= 5
              /\ fragmentsCollected' = 5 => narrativeIndex' = 1
              /\ fragmentsCollected' < 5 => narrativeIndex' = narrativeIndex]_vars

\* The Name level right after its fifth fragment was absorbed.
C15_Witness ==
    /\ currentLevel = "NAME"
    /\ fragmentsCollected = 5
    /\ isLevelComplete
    /\ narrativeIndex = 1

\* C16: from every reachable state selectVehicle('TEAR') leaves isLevelComplete
\* true and narrativeIndex 1, and selectVehicle of any other type changes no
\* field of the store.
C16_OnlyTearCompletes ==
    /\ ENABLED (SelectVehicle("TEAR") /\ isLevelComplete' /\ narrativeIndex' = 1)
    /\ \A type \in VehicleTypes \ {"TEAR"} :
          ~ENABLED (SelectVehicle(type) /\ vars' # vars)

\* The Travel level completed by the tear.
C16_Witness ==
    /\ currentLevel = "TRAVEL"
    /\ isLevelComplete
    /\ narrativeIndex = 1
    /\ fragmentsCollected = 0

\* C17: only a startLevel step lowers rainLevel; every tick that finds rainLevel
\* below 20 raises it by one step of 0.04 and every tick that finds it at 20 or
\* more leaves it; so rainLevel never passes the first value that is >= 20.
C17_RainMonotone ==
    /\ [](rainLevel \in 0..RAIN_FULL_STEPS)
    /\ [][/\ rainLevel' < rainLevel => StartLevelStep
          /\ \A t \in DOMAIN timers :
                RainTick(t) =>
                    rainLevel' = IF rainLevel < RAIN_FULL_STEPS
                                 THEN rainLevel + 1 ELSE rainLevel]_vars

\* The ramp at its top, with a tick still to come.
C17_Witness ==
    /\ rainLevel = RAIN_FULL_STEPS
    /\ isRaining
    /\ ActiveTimers # {}

\* C18: in one play-through of the Sun level isLevelComplete turns true only on
\* a tick that finds rainLevel >= 20, and the tick that stores the completion
\* (isLevelComplete = true, narrativeIndex = 1) runs once: no tick stores it
\* when an earlier tick of the play-through has stored it already.
C18_RainCompletesOnce ==
    [][/\ (isLevelComplete' /\ ~isLevelComplete) => rainLevel >= RAIN_FULL_STEPS
       /\ \A t \in DOMAIN timers :
             (RainTick(t) /\ rainLevel >= RAIN_FULL_STEPS) => ~isLevelComplete]_vars

\* C19: in one play-through of the Sun level playSunExtinguish is called once,
\* by the tick that takes rainLevel to its first value above 6.0.
C19_ExtinguishOnce ==
    [][extinguishCount' # extinguishCount =>
          /\ extinguishCount = 0
          /\ extinguishCount' = 1
          /\ rainLevel' = EXTINGUISH_STEPS]_vars

\* C20: in a play-through with no further startLevel every interval that
\* triggerRain started is eventually cleared; an interval is cleared by its own
\* tick, the first one that finds rainLevel >= 20; a cleared interval stays
\* cleared and its callback never runs again.
C20_RampSelfTerminates ==
    /\ \A t \in 1..MaxTimers :
          [](t \in DOMAIN timers => <>(t \in DOMAIN timers /\ ~timers[t].active))
    /\ [][\A t \in DOMAIN timers :
            /\ (timers[t].active /\ ~timers'[t].active) =>
                  (rainLevel >= RAIN_FULL_STEPS /\ RainTick(t))
            /\ (RainTick(t) /\ rainLevel >= RAIN_FULL_STEPS) => ~timers'[t].active
            /\ ~timers[t].active => ~timers'[t].active]_vars
    /\ [](\A t \in DOMAIN timers : ~timers[t].active => ~ENABLED RainTick(t))

\* Two ramps started in one play-through, both cleared at the full level.
C20_Witness ==
    /\ Len(timers) = 2
    /\ ActiveTimers = {}
    /\ rainLevel = RAIN_FULL_STEPS
    /\ isLevelComplete

\* C21: in every reachable state interactionMode is SLINGSHOT in PROLOGUE,
\* OBSERVER in HOME, CLICK in SUN and LURE in every other level, and only a
\* startLevel step changes it.
C21_ModeFollowsLevel ==
    /\ [](interactionMode = CASE currentLevel = "PROLOGUE" -> "SLINGSHOT"
                               [] currentLevel = "HOME" -> "OBSERVER"
                               [] currentLevel = "SUN" -> "CLICK"
                               [] OTHER -> "LURE")
    /\ [][interactionMode' # interactionMode => StartLevelStep]_vars

\* The Home level entered, in the one mode no other level has.
C21_Witness ==
    /\ currentLevel = "HOME"
    /\ interactionMode = "OBSERVER"

\* The spawn position of each level, in units of 0.5: x = 0, y = 0.5 and z.
SpawnZ(level) ==
    CASE level = "PROLOGUE" -> -24
      [] level = "CHAPTER_1" -> 16
      [] level = "NAME" -> 0
      [] level = "CHEWING" -> -16
      [] level = "WIND" -> 0
      [] level = "TRAVEL" -> 0
      [] level = "CONNECTION" -> 16
      [] level = "HOME" -> 10
      [] level = "SUN" -> 10

\* C22: every startLevel(L) step, whatever playerPos and cursorWorldPos were,
\* leaves both at the spawn position of L (z = -12 for PROLOGUE).
C22_SpawnAtLevelStart ==
    [][StartLevelStep =>
          /\ playerPos' = <<0, 1, SpawnZ(currentLevel')>>
          /\ cursorWorldPos' = <<0, 1, SpawnZ(currentLevel')>>]_vars

\* The Chewing level entered while player and cursor were elsewhere: both are
\* at its spawn position, which no input of UpdatePlayerPos reaches.
C22_Witness ==
    /\ currentLevel = "CHEWING"
    /\ playerPos = <<0, 1, -16>>
    /\ cursorWorldPos = <<0, 1, -16>>

\* C23: every startLevel step leaves tetheredNodeId, draggingNodeId and
\* hoveredNodeId null, whatever node was hovered, dragged or tethered before.
C23_TransientIdsReset ==
    [][StartLevelStep =>
          /\ tetheredNodeId' = NULL
          /\ draggingNodeId' = NULL
          /\ hoveredNodeId' = NULL]_vars

\* C24: from every reachable state resetGame() and startLevel('PROLOGUE') have
\* the same outcome, a step is one of resetGame exactly if it is one of
\* startLevel('PROLOGUE'), and that outcome is the Prologue in SLINGSHOT mode
\* at its spawn position with its 29 features, no node, zeroed counters, null
\* dragged and tethered ids, narrativeIndex 0 and isLevelComplete false.
C24_ResetGameIsStartPrologue ==
    /\ [](ENABLED ResetGame /\ ENABLED StartLevel("PROLOGUE", MIN_NODES, {}))
    /\ [][(ResetGame <=> StartLevel("PROLOGUE", MIN_NODES, {}))
          /\ (ResetGame =>
                /\ currentLevel' = "PROLOGUE"
                /\ interactionMode' = "SLINGSHOT"
                /\ playerPos' = <<0, 1, -24>> /\ cursorWorldPos' = <<0, 1, -24>>
                /\ nodes' = <<>> /\ connections' = <<>> /\ sequenceOrder' = <<>>
                /\ Len(envFeatures') = 29
                /\ bubblesPopped' = 0 /\ fragmentsCollected' = 0
                /\ playerScale' = 10 /\ leafHealth' = 0 /\ rainLevel' = 0
                /\ ~isRaining' /\ nextSequenceIndex' = 0
                /\ draggingNodeId' = NULL /\ tetheredNodeId' = NULL
                /\ narrativeIndex' = 0 /\ ~isLevelComplete')]_vars

\* The Prologue entered again while the mouse button is held: the button went
\* down before the reset, a mouse down after it would have left narrativeIndex 1.
C24_Witness ==
    /\ currentLevel = "PROLOGUE"
    /\ Len(envFeatures) = 29
    /\ narrativeIndex = 0
    /\ isMouseDown

\* ns and env are a result of the generator of the level, for some outcome of
\* the draws of generateConnectionEnv.
IsGenerated(level, ns, env) ==
    IF level = "CONNECTION"
    THEN \E count \in NodeCounts :
             \E platforms \in PlatformInputs(count) :
                 /\ Len(ns) = count
                 /\ [nodes |-> ns, env |-> env] = generateConnectionEnv(count, platforms)
    ELSE [nodes |-> ns, env |-> env] = Generate(level, MIN_NODES, {})

\* Every field startLevel writes is as a startLevel(level) call leaves it.
FreshLevel(level) ==
    /\ currentLevel = level
    /\ IsGenerated(level, nodes, envFeatures)
    /\ connections = <<>>
    /\ playerPos = <<0, 1, SpawnZ(level)>>
    /\ cursorWorldPos = <<0, 1, SpawnZ(level)>>
    /\ narrativeIndex = 0
    /\ ~isLevelComplete
    /\ draggingNodeId = NULL
    /\ tetheredNodeId = NULL
    /\ nextSequenceIndex = 0
    /\ bubblesPopped = 0
    /\ fragmentsCollected = 0
    /\ playerScale = 10
    /\ leafHealth = 0
    /\ lastBlockTime = 0
    /\ rainLevel = 0
    /\ ~isRaining
    /\ ~isInteractiveHover

C26_LevelChangesByFullReplace ==
    [][/\ currentLevel' # currentLevel => StartLevelStep
       /\ StartLevelStep =>
             /\ connections' = <<>>
             /\ IsGenerated(currentLevel', nodes', envFeatures')
             /\ \A i \in DOMAIN nodes' : ~nodes'[i].connected
             /\ sequenceOrder' = IF currentLevel' = "CHAPTER_1"
                                  THEN [i \in DOMAIN nodes' |-> nodes'[i].id]
                                  ELSE <<>>
             /\ nextSequenceIndex' = 0]_vars

\* The sequence level left with two of its connections made and entered again:
\* the Name level holds none of them.
C26_Witness ==
    /\ driver = "puzzle"
    /\ currentLevel = "NAME"
    /\ connections = <<>>
    /\ nodes = <<>>
    /\ sequenceOrder = <<>>
    /\ draggingNodeId # NULL

CountOfType(env, type) == Cardinality({i \in DOMAIN env : env[i].type = type})

\* C27: every startLevel(L) step leaves: in the sequence level 6 nodes and
\* sequenceOrder equal to their ids in array order; in CONNECTION 6 to 9 nodes
\* with pairwise distinct ids; in every other level no node, and outside the
\* sequence level an empty sequenceOrder; in NAME 15 BUBBLE features, in
\* CHEWING 20 FLESH_BALL, in WIND one WIND_EMITTER and one WITHERED_LEAF, in
\* TRAVEL 4 EMOTION_ORB of which one is tagged TEAR, in HOME one LAKE, in SUN
\* one SUN and one MUSHROOM; and every node unconnected.
C27_GeneratedCounts ==
    [][StartLevelStep =>
          LET level == currentLevel'
              ns == nodes'
              env == envFeatures'
          IN  /\ level = "CHAPTER_1" =>
                    /\ Len(ns) = 6
                    /\ sequenceOrder' = [i \in 1..6 |-> ns[i].id]
              /\ level = "CONNECTION" =>
                    /\ Len(ns) \in 6..9
                    /\ \A i, j \in DOMAIN ns : ns[i].id = ns[j].id => i = j
              /\ level \notin {"CHAPTER_1", "CONNECTION"} => ns = <<>>
              /\ level # "CHAPTER_1" => sequenceOrder' = <<>>
              /\ level = "NAME" => CountOfType(env, "BUBBLE") = 15 /\ Len(env) = 15
              /\ level = "CHEWING" => CountOfType(env, "FLESH_BALL") = 20
              /\ level = "WIND" =>
                    /\ CountOfType(env, "WIND_EMITTER") = 1
                    /\ CountOfType(env, "WITHERED_LEAF") = 1
              /\ level = "TRAVEL" =>
                    /\ CountOfType(env, "EMOTION_ORB") = 4
                    /\ Cardinality({i \in DOMAIN env : env[i].type = "EMOTION_ORB"
                                                        /\ env[i].data = "TEAR"}) = 1
              /\ level = "HOME" => CountOfType(env, "LAKE") = 1
              /\ level = "SUN" =>
                    /\ CountOfType(env, "SUN") = 1
                    /\ CountOfType(env, "MUSHROOM") = 1
              /\ \A i \in DOMAIN ns : ~ns[i].connected]_vars

\* The Connection level generated with 8 nodes and no platform.
C27_Witness ==
    /\ currentLevel = "CONNECTION"
    /\ Len(nodes) = 8
    /\ Len(envFeatures) = 5
    /\ connections = <<>>

\* C28: a setCursorWorldPos step changes cursorWorldPos only, an updatePlayerPos
\* step playerPos only, and a setMouseDown step isMouseDown only, except that
\* a mouse down in PROLOGUE at narrativeIndex 0 also leaves narrativeIndex 1;
\* every other setMouseDown step leaves narrativeIndex unchanged.
C28_SettersWriteOwnField ==
    [][/\ \A pos \in Positions :
             SetCursorWorldPos(pos) =>
                 /\ cursorWorldPos' = pos
                 /\ UNCHANGED <<levelVars, narrativeIndex, puzzleVars, envFeatures,
                                playerPos, isMouseDown, hoveredNodeId, lastBlockTime,
                                draggingNodeId, isInteractiveHover, tetheredNodeId,
                                nameVars, playerScale, leafHealth, rainVars,
                                isLevelComplete, timerVars>>
       /\ \A pos \in Positions :
             UpdatePlayerPos(pos) =>
                 /\ playerPos' = pos
                 /\ UNCHANGED <<levelVars, narrativeIndex, puzzleVars, envFeatures,
                                cursorWorldPos, isMouseDown, hoveredNodeId,
                                lastBlockTime, draggingNodeId, isInteractiveHover,
                                tetheredNodeId, nameVars, playerScale, leafHealth,
                                rainVars, isLevelComplete, timerVars>>
       /\ \A isDown \in BOOLEAN :
             SetMouseDown(isDown) =>
                 /\ isMouseDown' = isDown
                 /\ narrativeIndex' =
                       IF isDown /\ currentLevel = "PROLOGUE" /\ narrativeIndex = 0
                       THEN 1 ELSE narrativeIndex
                 /\ UNCHANGED <<levelVars, puzzleVars, envFeatures, playerPos,
                                cursorWorldPos, hoveredNodeId, lastBlockTime,
                                draggingNodeId, isInteractiveHover, tetheredNodeId,
                                nameVars, playerScale, leafHealth, rainVars,
                                isLevelComplete, timerVars>>]_vars

\* The first mouse down of the Prologue, with player and cursor moved before.
C28_Witness ==
    /\ currentLevel = "PROLOGUE"
    /\ isMouseDown
    /\ narrativeIndex = 1
    /\ playerPos = <<3, 0, 2>>
    /\ cursorWorldPos = <<0, 1, 29>>

\* The reasons for which completeConnection(targetId) is rejected.
IsRejected(targetId) ==
    \/ SourceId = NULL
    \/ SourceId = targetId
    \/ \E i \in DOMAIN connections : PairOf(connections[i]) = {SourceId, targetId}
    \/ currentLevel = "CHAPTER_1" /\ {SourceId, targetId} # ExpectedPair

\* C29: from every reachable state a completeConnection call that is rejected
\* (no source, source equal to target, pair already connected, or not the
\* expected pair of the sequence level) leaves connections, nodes,
\* narrativeIndex, isLevelComplete and nextSequenceIndex as they are and
\* draggingNodeId null.
C29_RejectionKeepsState ==
    \A targetId \in TargetInputs :
        IsRejected(targetId) =>
            ENABLED (/\ CompleteConnection(targetId)
                     /\ draggingNodeId' = NULL
                     /\ UNCHANGED <<connections, nodes, narrativeIndex,
                                    isLevelComplete, nextSequenceIndex>>)

\* The sequence level with its first pair connected and the first node dragged
\* again: the second node is rejected as connected already, the third as the
\* wrong pair.
C29_Witness ==
    /\ currentLevel = "CHAPTER_1"
    /\ connections = <<<<"n1-0", "n1-1">>>>
    /\ draggingNodeId = "n1-0"
    /\ IsRejected("n1-1")
    /\ IsRejected("n1-2")

\* C30: every step either keeps each connection at its index and adds at most
\* one at the end, or is a startLevel step, which leaves the list empty.
C30_ConnectionsAppendOnly ==
    [][\/ /\ Len(connections') \in {Len(connections), Len(connections) + 1}
          /\ \A i \in DOMAIN connections : connections'[i] = connections[i]
       \/ StartLevelStep /\ connections' = <<>>]_vars

\* The sequence level with all five of its connections made.
C30_Witness ==
    /\ currentLevel = "CHAPTER_1"
    /\ Len(connections) = 5
    /\ \A i \in 1..5 : connections[i] = <<SequenceAt(i - 1), SequenceAt(i)>>

---------------------------------------------------------------------------
(* Narrative index of the connection levels *)

\* A step that commits a connection: the list grows by one pair.
CommitStep == Len(connections') = Len(connections) + 1

\* C31: in CONNECTION a commit moves narrativeIndex to 2 when it completes the
\* level, else to 1 if it was 0, else leaves it unchanged; in a level that is
\* neither CHAPTER_1 nor CONNECTION a commit advances it by exactly one.
C31_TetherNarrativeMilestones ==
    [][CommitStep =>
        /\ currentLevel = "CONNECTION" =>
              narrativeIndex' = IF isLevelComplete' THEN 2
                                ELSE IF narrativeIndex = 0 THEN 1
                                ELSE narrativeIndex
        /\ currentLevel \notin {"CHAPTER_1", "CONNECTION"} =>
              narrativeIndex' = narrativeIndex + 1]_vars

\* The tether level completed by its third connection: the index went to 1 on
\* the first commit, stayed on the second and is 2 after the completing one.
C31_Witness ==
    /\ currentLevel = "CONNECTION"
    /\ Len(connections) = 3
    /\ isLevelComplete
    /\ narrativeIndex = 2

\* C32: in the sequence level narrativeIndex follows milestones: a commit
\* changes it exactly when it is the first accepted connection or the one that
\* completes the level, and no commit in between changes it.
C32_SequenceNarrativeMilestones ==
    [][(currentLevel = "CHAPTER_1" /\ CommitStep) =>
        (narrativeIndex' # narrativeIndex <=>
            (Len(connections) = 0 \/ isLevelComplete'))]_vars

---------------------------------------------------------------------------
(* Rain ramps and level transitions *)

\* C33: a rain ramp started before a level transition has no effect after it.
\* isRaining is false exactly when no triggerRain was called since the last
\* startLevel: then rainLevel is 0, and a tick of an interval (which can only
\* be one started before the transition) leaves rainLevel, isLevelComplete and
\* narrativeIndex as they are.
C33_EarlierRampInert ==
    /\ [](~isRaining => rainLevel = 0)
    /\ [][(~isRaining /\ \E t \in DOMAIN timers : RainTick(t)) =>
            UNCHANGED <<rainLevel, isLevelComplete, narrativeIndex>>]_vars

---------------------------------------------------------------------------
(* Source of a connection *)

\* The source the level prescribes: the tethered node in CONNECTION, the
\* dragged node elsewhere.
LevelSource == IF currentLevel = "CONNECTION" THEN tetheredNodeId ELSE draggingNodeId

\* The ids a completeConnection call may be given as its target.
AnyTarget == {nodes[i].id : i \in DOMAIN nodes} \cup {"n1-0", "n1-1", GHOST}

\* C34: the source of a connection depends on the level. In CONNECTION it is
\* tetheredNodeId and draggingNodeId is ignored; elsewhere it is draggingNodeId
\* and tetheredNodeId is ignored. While the level's source is null no call
\* commits anything, whatever the other id holds; a commit appends exactly the
\* pair (source, target) and leaves draggingNodeId null.
C34_SourceByLevel ==
    /\ [](LevelSource = NULL =>
            \A t \in AnyTarget : ~ENABLED (CompleteConnection(t) /\ CommitStep))
    /\ [][CommitStep =>
            /\ LevelSource # NULL
            /\ \E t \in AnyTarget : connections' = Append(connections, <<LevelSource, t>>)
            /\ draggingNodeId' = NULL]_vars

\* The tether level after a commit from the tethered node, the tether released
\* and a drag pending: no call commits now.
C34_Witness ==
    /\ currentLevel = "CONNECTION"
    /\ Len(connections) = 1
    /\ connections[1] = <<"n2-rnd-0", "n2-rnd-1">>
    /\ tetheredNodeId = NULL
    /\ draggingNodeId = GHOST

---------------------------------------------------------------------------
(* Sequence cursor *)

\* C35: in the sequence level the cursor counts the connections and never
\* passes the last index of sequenceOrder; the k-th connection (from 0) is the
\* unordered pair of sequenceOrder[k] and sequenceOrder[k+1]; and with the
\* cursor at the last index no completeConnection call commits.
C35_CursorCountsConnections ==
    currentLevel = "CHAPTER_1" =>
        /\ nextSequenceIndex = Len(connections)
        /\ nextSequenceIndex <= Len(sequenceOrder) - 1
        /\ \A k \in 0..(Len(connections) - 1) :
              PairOf(connections[k + 1]) = {sequenceOrder[k + 1], sequenceOrder[k + 2]}
        /\ nextSequenceIndex = Len(sequenceOrder) - 1 =>
              \A t \in AnyTarget : ~ENABLED (CompleteConnection(t) /\ CommitStep)

\* The cursor at the last index and the last node dragged again.
C35_Witness ==
    /\ currentLevel = "CHAPTER_1"
    /\ Len(sequenceOrder) = 6
    /\ nextSequenceIndex = 5
    /\ Len(connections) = 5
    /\ draggingNodeId = sequenceOrder[6]

---------------------------------------------------------------------------
(* The connected flag of a node *)

\* C36: a node's connected flag is true exactly when its id is an endpoint of
\* some connection, and a step that is not a startLevel step never turns a
\* true flag of a node false.
C36_ConnectedIffInConnections ==
    /\ [](\A i \in DOMAIN nodes :
            nodes[i].connected <=>
                \E k \in DOMAIN connections : nodes[i].id \in PairOf(connections[k]))
    /\ [][~StartLevelStep =>
            \A i \in DOMAIN nodes :
                nodes[i].connected =>
                    /\ i \in DOMAIN nodes'
                    /\ nodes'[i].id = nodes[i].id
                    /\ nodes'[i].connected]_vars

\* The tether level with one pair connected: its two nodes are flagged, the
\* other four are not.
C36_Witness ==
    /\ currentLevel = "CONNECTION"
    /\ Len(nodes) = 6
    /\ connections = <<<<"n2-rnd-2", "n2-rnd-3">>>>
    /\ nodes[3].connected /\ nodes[4].connected
    /\ ~nodes[1].connected /\ ~nodes[5].connected

---------------------------------------------------------------------------
(* Fragments and bubbles *)

\* C37 as claimed: fragmentsCollected counts only fragments that existed, so it
\* is at most 3 times bubblesPopped in every reachable state.
C37_CollectedWithinPopped == fragmentsCollected <= 3 * bubblesPopped

\* C37 as amended: the fragments that exist are bounded by the bubbles, the
\* counter is not. The number of FRAGMENT features is at most 3 times
\* bubblesPopped, and absorbFragment called with an id that is not in
\* envFeatures leaves envFeatures as it is, raises fragmentsCollected by one and
\* leaves isLevelComplete true exactly if the new count is 5 or more.
C37_FragmentsWithinPopped ==
    /\ CountOfType(envFeatures, "FRAGMENT") <= 3 * bubblesPopped
    /\ \A id \in FragmentInputs :
          ~HasFeature(id) =>
              ENABLED (/\ AbsorbFragment(id)
                       /\ envFeatures' = envFeatures
                       /\ fragmentsCollected' = fragmentsCollected + 1
                       /\ isLevelComplete' <=> fragmentsCollected + 1 >= 5)

\* The Name level completed by five absorbFragment calls with one bubble
\* popped: two of the calls were for ids absent from envFeatures.
C37_Witness ==
    /\ currentLevel = "NAME"
    /\ bubblesPopped = 1
    /\ CountOfType(envFeatures, "FRAGMENT") = 0
    /\ fragmentsCollected = 5
    /\ isLevelComplete

---------------------------------------------------------------------------
(* Completion rule of a level *)

\* The step is the completing action of the level that is active.
CompletionRule ==
    CASE currentLevel = "NAME" -> \E id \in FragmentInputs : AbsorbFragment(id)
      [] currentLevel = "CHEWING" -> \E amount \in GrowAmounts : GrowPlayer(amount)
      [] currentLevel = "WIND" -> \E amount \in HealAmounts : HealLeaf(amount)
      [] currentLevel = "TRAVEL" -> SelectVehicle("TEAR")
      [] currentLevel \in {"CHAPTER_1", "CONNECTION"} ->
            \E targetId \in AnyTarget : CompleteConnection(targetId)
      [] currentLevel = "SUN" -> \E t \in DOMAIN timers : RainTick(t)
      [] OTHER -> FALSE

\* C38: a step that turns isLevelComplete from false to true is a step of the
\* completion rule of the current level; a mechanic action of another level
\* never sets it.
C38_CompletionByLevelRule ==
    [][(~isLevelComplete /\ isLevelComplete') => CompletionRule]_vars

---------------------------------------------------------------------------
(* The Prologue exit *)

\* C39: the frame that detects the Prologue exit and calls
\* startLevel('CHAPTER_1') ends with the store's playerPos at the spawn
\* position of CHAPTER_1, (0, 0.5, 8): the write-back that ends the frame does
\* not overwrite it.
C39_ExitFrameKeepsSpawn ==
    [][((\E dz \in FrameSteps : PlayerFrame(dz))
            /\ currentLevel = "PROLOGUE" /\ currentLevel' = "CHAPTER_1")
        => playerPos' = <<0, 1, 16>>]_vars

---------------------------------------------------------------------------
(* The journey through the levels *)

LevelOrder ==
    <<"PROLOGUE", "CHAPTER_1", "NAME", "CHEWING", "WIND", "TRAVEL", "CONNECTION",
      "HOME", "SUN">>

IndexOf(level) == CHOOSE i \in DOMAIN LevelOrder : LevelOrder[i] = level

=============================================================================
